---- MODULE Spec2Model ----
(***************************************************************************)
(* Model of the Slack plugin of sourcecred:                                *)
(*   - SqliteMirrorRepository: constructor, _transaction, _initialize      *)
(*   - createGraph: the pass over channels / messages of a mirror          *)
(* SpecRepo explores the repository's initialization on one store,         *)
(* SpecGraph explores createGraph over bounded mirror snapshots.           *)
(***************************************************************************)
EXTENDS Integers, Sequences, FiniteSets, TLC

VARIABLES
    \* ---- SqliteMirrorRepository ----
    db,         \* the better-sqlite3 handle: tables, meta rows, inTransaction, journal
    pc,         \* position of the running constructor ("idle": none running)
    version,    \* VERSION of the build whose constructor is running / ran last
    k,          \* index of the next content table to create
    error,      \* pending exception of the running call ("" when none)
    log,        \* SQL statements the running / last constructor call issued
    opened,     \* the guard's BEGIN succeeded in this call
    faulted,    \* the statement of this call that the storage engine failed, or ""
    outcome,    \* "running", or how the last call ended ("returned" | "thrown")
                \* while the handle is as that call left it, else "none"
    pre,        \* the handle's state when the constructor was called
    \* ---- createGraph ----
    nonString,  \* what NodeAddress.append does with a part that is not a string
    weights,    \* the WeightConfig passed to createGraph
    messages,   \* rows of the mirror's messages, in store order
    reactions,  \* rows of the mirror's message_reactions, in store order
    wg,         \* the weighted graph under construction: nodes, edges, nodeWeights
    pos,        \* how many messages of the pass have been processed
    result      \* "running" | "returned" | "thrown"

repoVars == <<db, pc, version, k, error, log, opened, faulted, outcome, pre>>

graphVars == <<nonString, weights, messages, reactions, wg, pos, result>>

vars == <<repoVars, graphVars>>

-----------------------------------------------------------------------------
(* SqliteMirrorRepository                                                  *)

\* const VERSION = "slack_mirror_v0"
VERSION == "slack_mirror_v0"

\* The version constants of the builds that may open the same store file: the
\* current one and a build whose schema version was bumped.
Versions == {VERSION, "slack_mirror_v1"}

\* json-stable-stringify of an object with the single key "version".
Stringify(obj) == "{\"version\":\"" \o obj.version \o "\"}"

\* A mutant of ConfigOf: the raw version string is stored, not the JSON object.
ConfigOfRaw(v) == v

\* const config = stringify({version: VERSION})
ConfigOf(v) == Stringify([version |-> v])

\* a value of type string | void: undefined, the result of .get() of a
\* statement that selects no row, is no string and equals none
Undefined == [isString |-> FALSE, str |-> ""]

\* the string s as a value of type string | void
StringValue(s) == [isString |-> TRUE, str |-> s]

\* the five content tables, in the order of the `tables` array
ContentTables ==
    <<"channels", "members", "messages", "message_reactions", "message_mentions">>

AllTables == {"meta"} \cup {ContentTables[i] : i \in 1..Len(ContentTables)}

\* what a transaction can change: the schema and the rows of meta
Content(d) == [tables |-> d.tables, meta |-> d.meta]

Pristine == [tables |-> {}, meta |-> <<>>]

\* new Database(":memory:")
\* (owner records who issued the BEGIN of the open transaction: "guard" for
\* _transaction, "caller" for the code that owns the handle, "none" when closed)
NewDatabase ==
    [tables |-> {}, meta |-> <<>>, inTransaction |-> FALSE, journal |-> Pristine,
     owner |-> "none"]

\* db.prepare("BEGIN").run()
RunBegin(d, who) ==
    [d EXCEPT !.inTransaction = TRUE, !.journal = Content(d), !.owner = who]

\* db.prepare("COMMIT").run()
RunCommit(d) == [d EXCEPT !.inTransaction = FALSE, !.owner = "none"]

\* db.prepare("ROLLBACK").run(): schema changes are transactional in SQLite
RunRollback(d) ==
    [d EXCEPT !.inTransaction = FALSE,
              !.owner = "none",
              !.tables = d.journal.tables,
              !.meta = d.journal.meta]

\* CREATE TABLE IF NOT EXISTS meta (...)
CreateMetaTable(d) == [d EXCEPT !.tables = d.tables \cup {"meta"}]

\* db.prepare("SELECT config FROM meta").pluck().get()
SelectConfig(d) ==
    IF d.meta = <<>> THEN Undefined ELSE StringValue(d.meta[1].config)

\* A mutant of GuardRejects: the guard never rejects.
GuardNeverRejects(d) == FALSE

\* _transaction: if (db.inTransaction) throw new Error("already in transaction")
GuardRejects(d) == d.inTransaction

\* A mutant of InitializeBranch: only the equal case is recognised, a store of
\* another version is initialized again.
InitializeBranchNoThrow(existingConfig, config) ==
    IF existingConfig = StringValue(config) THEN "return" ELSE "insert"

\* _initialize: the comparison of the stored config with the expected one
InitializeBranch(existingConfig, config) ==
    IF existingConfig = StringValue(config) THEN "return"
    ELSE IF existingConfig # Undefined THEN "throw"
    ELSE "insert"

\* the row of INSERT INTO meta (zero, config) VALUES (0, ?)
MetaRow(config) == [zero |-> 0, config |-> config]

\* zero INTEGER PRIMARY KEY: a second row with the same key is rejected
PrimaryKeyConflict(d, row) == \E i \in 1..Len(d.meta) : d.meta[i].zero = row.zero

\* A mutant of FinallyStep: the finally block does not roll back.
FinallyStepNoRollback(d) == d

\* _transaction: finally { if (db.inTransaction) db.prepare("ROLLBACK").run() }
FinallyStep(d) == IF d.inTransaction THEN RunRollback(d) ELSE d

IncompatibleError == "Database already populated with incompatible server or version"

\* the statement the constructor is about to run at position p
StatementAt(p) ==
    CASE p = "begin" -> "BEGIN"
      [] p = "createMeta" -> "CREATE TABLE IF NOT EXISTS meta"
      [] p = "select" -> "SELECT config FROM meta"
      [] p = "insert" -> "INSERT INTO meta"
      [] p = "tables" -> "CREATE TABLE " \o ContentTables[k]
      [] p = "commit" -> "COMMIT"
      [] OTHER -> ""

RepoInit ==
    /\ db = NewDatabase
    /\ pc = "idle"
    /\ version = VERSION
    /\ k = 1
    /\ error = ""
    /\ log = <<>>
    /\ opened = FALSE
    /\ faulted = ""
    /\ outcome = "none"
    /\ pre = NewDatabase

\* new SqliteMirrorRepository(null, token)
ConstructNull ==
    /\ pc = "idle"
    /\ outcome' = "thrown"
    /\ error' = "db: null"
    /\ log' = <<>>
    /\ opened' = FALSE
    /\ faulted' = ""
    /\ pre' = db
    /\ UNCHANGED <<db, pc, version, k, graphVars>>

\* new SqliteMirrorRepository(db, token) by a build whose VERSION is v, up to
\* the guard of _transaction
Construct(v) ==
    /\ pc = "idle"
    /\ version' = v
    /\ pre' = db
    /\ log' = <<>>
    /\ opened' = FALSE
    /\ faulted' = ""
    /\ k' = 1
    /\ IF GuardRejects(db)
         THEN /\ outcome' = "thrown"
              /\ error' = "already in transaction"
              /\ pc' = "idle"
         ELSE /\ outcome' = "running"
              /\ error' = ""
              /\ pc' = "begin"
    /\ UNCHANGED <<db, graphVars>>

\* db.prepare("BEGIN").run(); inside a transaction SQLite refuses it
Begin ==
    /\ pc = "begin"
    /\ log' = Append(log, "BEGIN")
    /\ IF db.inTransaction
         THEN /\ error' = "SqliteError"
              /\ pc' = "finally"
              /\ UNCHANGED <<db, opened>>
         ELSE /\ db' = RunBegin(db, "guard")
              /\ opened' = TRUE
              /\ pc' = "createMeta"
              /\ UNCHANGED error
    /\ UNCHANGED <<version, k, faulted, outcome, pre, graphVars>>

\* _initialize: CREATE TABLE IF NOT EXISTS meta
CreateMeta ==
    /\ pc = "createMeta"
    /\ log' = Append(log, StatementAt(pc))
    /\ db' = CreateMetaTable(db)
    /\ pc' = "select"
    /\ UNCHANGED <<version, k, error, opened, faulted, outcome, pre, graphVars>>

\* _initialize: read the stored config and compare it
CheckConfig ==
    /\ pc = "select"
    /\ log' = Append(log, StatementAt(pc))
    /\ LET branch == InitializeBranch(SelectConfig(db), ConfigOf(version))
       IN  /\ pc' = CASE branch = "return" -> "commit"
                      [] branch = "throw" -> "finally"
                      [] OTHER -> "insert"
           /\ error' = IF branch = "throw" THEN IncompatibleError ELSE error
    /\ UNCHANGED <<db, version, k, opened, faulted, outcome, pre, graphVars>>

\* _initialize: INSERT INTO meta (zero, config) VALUES (0, ?)
InsertMeta ==
    /\ pc = "insert"
    /\ log' = Append(log, StatementAt(pc))
    /\ LET row == MetaRow(ConfigOf(version))
       IN  IF PrimaryKeyConflict(db, row)
             THEN /\ error' = "SqliteError"
                  /\ pc' = "finally"
                  /\ UNCHANGED db
             ELSE /\ db' = [db EXCEPT !.meta = Append(db.meta, row)]
                  /\ pc' = "tables"
                  /\ UNCHANGED error
    /\ UNCHANGED <<version, k, opened, faulted, outcome, pre, graphVars>>

\* _initialize: one iteration of for (const table of tables) db.prepare(table).run()
CreateContentTable ==
    /\ pc = "tables"
    /\ log' = Append(log, StatementAt(pc))
    /\ IF ContentTables[k] \in db.tables
         THEN /\ error' = "SqliteError"
              /\ pc' = "finally"
              /\ UNCHANGED <<db, k>>
         ELSE /\ db' = [db EXCEPT !.tables = db.tables \cup {ContentTables[k]}]
              /\ IF k = Len(ContentTables)
                   THEN pc' = "commit" /\ k' = k
                   ELSE pc' = "tables" /\ k' = k + 1
              /\ UNCHANGED error
    /\ UNCHANGED <<version, opened, faulted, outcome, pre, graphVars>>

\* _transaction: if (db.inTransaction) db.prepare("COMMIT").run()
Commit ==
    /\ pc = "commit"
    /\ IF db.inTransaction
         THEN db' = RunCommit(db) /\ log' = Append(log, "COMMIT")
         ELSE UNCHANGED <<db, log>>
    /\ pc' = "finally"
    /\ UNCHANGED <<version, k, error, opened, faulted, outcome, pre, graphVars>>

\* _transaction: the finally block, then the constructor returns or rethrows
Finally ==
    /\ pc = "finally"
    /\ db' = FinallyStep(db)
    /\ log' = IF db' # db THEN Append(log, "ROLLBACK") ELSE log
    /\ outcome' = IF error = "" THEN "returned" ELSE "thrown"
    /\ pc' = "idle"
    /\ UNCHANGED <<version, k, error, opened, faulted, pre, graphVars>>

\* The storage engine fails the statement of the try block that is about to
\* run (I/O error, disk full); SQLite either leaves the transaction open or
\* rolls it back on its own. faulted records the statement that failed. The
\* ROLLBACK of the finally block is issued only on an open transaction, where
\* SQLite ends the transaction unconditionally: it is not a point of failure.
Fault(autoRollback) ==
    /\ pc \in {"begin", "createMeta", "select", "insert", "tables", "commit"}
    /\ pc = "commit" => db.inTransaction
    /\ log' = Append(log, StatementAt(pc))
    /\ error' = "SqliteError"
    /\ faulted' = StatementAt(pc)
    /\ db' = IF autoRollback /\ db.inTransaction THEN RunRollback(db) ELSE db
    /\ pc' = "finally"
    /\ UNCHANGED <<version, k, opened, outcome, pre, graphVars>>

\* The owner of the handle opens a transaction of its own between constructions.
CallerBegin ==
    /\ pc = "idle"
    /\ ~db.inTransaction
    /\ db' = RunBegin(db, "caller")
    /\ outcome' = "none"
    /\ UNCHANGED <<pc, version, k, error, log, opened, faulted, pre, graphVars>>

\* ... and ends the open transaction with COMMIT or ROLLBACK: nothing ties a
\* transaction to who opened it. The owner wrote nothing, so both leave the
\* same store.
CallerEnd(commit) ==
    /\ pc = "idle"
    /\ db.inTransaction
    /\ db' = IF commit THEN RunCommit(db) ELSE RunRollback(db)
    /\ outcome' = "none"
    /\ UNCHANGED <<pc, version, k, error, log, opened, faulted, pre, graphVars>>

RepoNext ==
    \/ ConstructNull
    \/ \E v \in Versions : Construct(v)
    \/ Begin
    \/ CreateMeta
    \/ CheckConfig
    \/ InsertMeta
    \/ CreateContentTable
    \/ Commit
    \/ Finally
    \/ \E autoRollback \in BOOLEAN : Fault(autoRollback)
    \/ CallerBegin
    \/ \E commit \in BOOLEAN : CallerEnd(commit)


-----------------------------------------------------------------------------
(* The mirror snapshot read by createGraph                                 *)

\* the most rows of message_reactions in a snapshot
MaxReactions == 2

\* the most mentions in a snapshot
MaxMentions == 1

Null == "null"

\* repo.members(): the mirrored members; "X" is an id the mirror has no member for
Members ==
    << [id |-> "A", name |-> "alice", email |-> "alice@example.org"],
       [id |-> "B", name |-> "bob", email |-> "bob@example.org"] >>

UserIds == <<"A", "B", "X">>

\* repo.channels()
Channels ==
    << [id |-> "C1", name |-> "general", type |-> "channel"],
       [id |-> "C2", name |-> "random", type |-> "channel"] >>

MessageIds == <<"1", "2">>

ReactionNames == <<"+1", "tada">>

AuthorIds == {"A", "X"}

MentionedIds == <<"B", "X">>

\* const memberMap = new Map(repo.members().map((m) => [m.id, m]))
MemberMap == [id \in {Members[i].id : i \in 1..Len(Members)} |->
                 CHOOSE m \in {Members[i] : i \in 1..Len(Members)} : m.id = id]

Known(id) == id \in DOMAIN MemberMap

\* the j-th possible row of message_reactions: (message, reaction name, reactor)
ReactionOption(j) ==
    [messageId |-> MessageIds[((j - 1) \div 6) + 1],
     reaction |-> ReactionNames[(((j - 1) \div 3) % 2) + 1],
     reactor |-> UserIds[((j - 1) % 3) + 1]]

ReactionChoices == {S \in SUBSET (1..12) : Cardinality(S) <= MaxReactions}

\* the j-th possible mention: (message, mentioned user id)
MentionOption(j) ==
    [messageId |-> MessageIds[((j - 1) \div 2) + 1],
     user |-> MentionedIds[((j - 1) % 2) + 1]]

MentionChoices == {S \in SUBSET (1..4) : Cardinality(S) <= MaxMentions}

RECURSIVE SeqOfSet(_, _, _)
\* the elements F(j), j in S, in increasing order of j
SeqOfSet(S, n, acc) ==
    IF n > 12 THEN acc
    ELSE SeqOfSet(S, n + 1, IF n \in S THEN Append(acc, n) ELSE acc)

\* the message row with the derived fields of Model.Message:
\* hasReactions / hasMentions say whether the mirror holds a reaction / a
\* mention of the message, mentions lists the mentioned user ids
MessageRow(id, channel, author, isThread, inReplyTo, R, M) ==
    LET ms == SelectSeq(SeqOfSet(M, 1, <<>>), LAMBDA j : MentionOption(j).messageId = id)
    IN  [id |-> id, channel |-> channel, authorId |-> author,
         text |-> "message " \o id,
         isThread |-> isThread, inReplyTo |-> inReplyTo,
         hasReactions |-> \E j \in R : ReactionOption(j).messageId = id,
         hasMentions |-> ms # <<>>,
         mentions |-> [i \in 1..Len(ms) |-> MentionOption(ms[i]).user]]

\* the weight configurations: the defaults of _upgrade, and one with overrides
WeightConfigs ==
    { [channelWeights |-> [defaultWeight |-> 1, weights |-> <<>>],
       emojiWeights |-> [defaultWeight |-> 1, weights |-> <<>>]],
      [channelWeights |-> [defaultWeight |-> 1, weights |-> <<>>],
       emojiWeights |-> [defaultWeight |-> 1, weights |-> ("tada" :> 3)]] }

\* repo.messages(channelId)
MessagesOf(channelId) == SelectSeq(messages, LAMBDA m : m.channel = channelId)

\* the messages in the order the two nested loops visit them
PassOrder == MessagesOf(Channels[1].id) \o MessagesOf(Channels[2].id)

ChannelOf(m) == CHOOSE c \in {Channels[i] : i \in 1..Len(Channels)} : c.id = m.channel

\* repo.reactions(channel, messageId)
ReactionsOf(channelId, messageId) ==
    SelectSeq(reactions, LAMBDA r : r.channel = channelId /\ r.messageId = messageId)

\* repo.thread(messageId): the ids of the other messages that reply to it
Thread(messageId) ==
    LET replies == SelectSeq(messages,
                       LAMBDA m : m.inReplyTo = messageId /\ m.id # messageId)
    IN  [i \in 1..Len(replies) |-> replies[i].id]

\* repo.message(messageId)
MessageById(messageId) ==
    CHOOSE m \in {messages[i] : i \in 1..Len(messages)} : m.id = messageId

-----------------------------------------------------------------------------
(* Addresses, nodes and edges                                              *)

\* A JavaScript value handed to a parameter typed string: a string, or an
\* object, whose String() is "[object Object]".
JsString(s) == [isString |-> TRUE, str |-> s]
JsObject(o) == [isString |-> FALSE, str |-> "[object Object]"]

\* the prefixes of declaration.js
MemberPrefix == <<"sourcecred", "slack", "MEMBER">>
MessagePrefix == <<"sourcecred", "slack", "MESSAGE">>
ReactionPrefix == <<"sourcecred", "slack", "REACTION">>
AuthorsMessagePrefix == <<"sourcecred", "slack", "AUTHORS", "MESSAGE">>
AddsReactionPrefix == <<"sourcecred", "slack", "ADDS_REACTION">>
ReactsToPrefix == <<"sourcecred", "slack", "REACTS_TO">>
MentionsPrefix == <<"sourcecred", "slack", "MENTIONS">>
MessageRepliesPrefix == <<"sourcecred", "slack", "REPLIES_TO">>

\* the address no call returns: the call threw a TypeError
AddressError == <<"TypeError">>

\* NodeAddress.append / EdgeAddress.append: the parts follow the prefix. A part
\* that is not a string either makes the call throw or is coerced by the join.
AddressAppend(prefix, parts) ==
    IF \E i \in 1..Len(parts) : ~parts[i].isString /\ nonString = "TypeError"
      THEN AddressError
      ELSE prefix \o [i \in 1..Len(parts) |-> parts[i].str]

MemberAddress(member) == AddressAppend(MemberPrefix, <<JsString(member.email)>>)

MessageAddress(message) ==
    AddressAppend(MessagePrefix, <<JsString(message.channel), JsString(message.id)>>)

ReactionAddress(reaction, message) ==
    AddressAppend(ReactionPrefix,
        <<JsString(message.channel), reaction, JsString(message.authorId),
          JsString(message.id)>>)

\* parseFloat(message.id)
ParseFloat(id) == CHOOSE n \in 1..Len(MessageIds) : MessageIds[n] = id

\* Number(parseFloat(message.id) * 1000)
TimestampMs(message) == ParseFloat(message.id) * 1000

\* (ids are short and hold no character that escape() rewrites)
MemberNode(member) ==
    [address |-> MemberAddress(member),
     description |-> "slack/#" \o member.id,
     timestampMs |-> Null]

\* (texts are shorter than MESSAGE_LENGTH and hold nothing to escape)
MessageNode(message, channelName) ==
    [address |-> MessageAddress(message),
     description |-> "#" \o channelName \o " message [\"" \o message.text \o "...\"]",
     timestampMs |-> TimestampMs(message)]

\* (the template literal coerces `reaction` to a string; a TLA+ string holds
\* no backquote, ' stands for it)
ReactionNode(message, reaction) ==
    [address |-> ReactionAddress(reaction, message),
     description |-> "Reacted '" \o reaction.str \o "' to message [" \o message.id
                        \o "] in channel " \o message.channel,
     timestampMs |-> TimestampMs(message)]

AuthorsMessageEdge(message, author) ==
    [address |-> AddressAppend(AuthorsMessagePrefix,
                    <<JsString(author.id), JsString(message.channel),
                      JsString(message.id)>>),
     timestampMs |-> TimestampMs(message),
     src |-> MemberAddress(author),
     dst |-> MessageAddress(message)]

AddsReactionEdge(reaction, member, message) ==
    [address |-> AddressAppend(AddsReactionPrefix,
                    <<JsString(member.id), reaction, JsString(message.channel),
                      JsString(message.id)>>),
     timestampMs |-> TimestampMs(message),
     src |-> MemberAddress(member),
     dst |-> ReactionAddress(reaction, message)]

ReactsToEdge(reaction, message) ==
    [address |-> AddressAppend(ReactsToPrefix,
                    <<reaction, JsString(message.authorId), JsString(message.channel),
                      JsString(message.id)>>),
     timestampMs |-> TimestampMs(message),
     src |-> ReactionAddress(reaction, message),
     dst |-> MessageAddress(message)]

MentionsEdge(message, member) ==
    [address |-> AddressAppend(MentionsPrefix,
                    <<JsString(message.channel), JsString(message.authorId),
                      JsString(message.id), JsString(member.id)>>),
     timestampMs |-> TimestampMs(message),
     src |-> MessageAddress(message),
     dst |-> MemberAddress(member)]

RepliesEdge(message, reply) ==
    [address |-> AddressAppend(MessageRepliesPrefix,
                    <<JsString(message.channel), JsString(message.authorId),
                      JsString(message.id), JsString(reply.channel),
                      JsString(reply.authorId), JsString(reply.id)>>),
     timestampMs |-> TimestampMs(message),
     src |-> MessageAddress(message),
     dst |-> MessageAddress(reply)]

-----------------------------------------------------------------------------
(* createGraph                                                             *)

\* reactionWeight(weights, reaction, reactor, authorId, channel): the weight
\* of the emoji times the weight of the channel, each with its default
WeightOf(group, key) ==
    IF key \in DOMAIN group.weights THEN group.weights[key] ELSE group.defaultWeight

ReactionWeight(w, reaction, reactor, authorId, channel) ==
    WeightOf(w.emojiWeights, reaction) * WeightOf(w.channelWeights, channel)

\* {graph: new Graph(), weights: emptyWeights()}; hasEdges and thrown are the
\* pass's local flag and whether a call inside it threw
EmptyGraph ==
    [nodes |-> {}, edges |-> {}, nodeWeights |-> <<>>, hasEdges |-> FALSE,
     thrown |-> FALSE]

\* graph.addNode(node): a second node at an address must equal the first
AddNode(g, node) ==
    IF g.thrown THEN g
    ELSE IF node.address = AddressError
           \/ \E n \in g.nodes : n.address = node.address /\ n # node
      THEN [g EXCEPT !.thrown = TRUE]
      ELSE [g EXCEPT !.nodes = g.nodes \cup {node}]

\* graph.addEdge(edge): a second edge at an address must equal the first
AddEdge(g, edge) ==
    IF g.thrown THEN g
    ELSE IF AddressError \in {edge.address, edge.src, edge.dst}
           \/ \E e \in g.edges : e.address = edge.address /\ e # edge
      THEN [g EXCEPT !.thrown = TRUE]
      ELSE [g EXCEPT !.edges = g.edges \cup {edge}]

\* wg.weights.nodeWeights.set(address, weight)
SetWeight(g, address, weight) ==
    IF g.thrown THEN g
    ELSE IF address = AddressError THEN [g EXCEPT !.thrown = TRUE]
    ELSE [g EXCEPT !.nodeWeights = (address :> weight) @@ g.nodeWeights]

\* A mutant of SkipMessage: no message is skipped.
SkipNoMessage(message) == FALSE

\* if (!message.hasReactions && !message.hasMentions) continue
SkipMessage(message) == ~message.hasReactions /\ ~message.hasMentions

\* the body of for (const reaction of reactions)
ReactionStep(g, message, reaction) ==
    IF ~Known(reaction.reactor) THEN g
    ELSE
      LET reactingMember == MemberMap[reaction.reactor]
          node == ReactionNode(message, JsObject(reaction))
          g1 == SetWeight(g, node.address,
                    ReactionWeight(weights, reaction.reaction, reaction.reactor,
                                   message.authorId, message.channel))
          g2 == AddNode(g1, node)
          g3 == AddNode(g2, MemberNode(reactingMember))
          g4 == AddEdge(g3, ReactsToEdge(JsString(reaction.reaction), message))
          g5 == AddEdge(g4, AddsReactionEdge(JsString(reaction.reaction),
                                             reactingMember, message))
      IN  [g5 EXCEPT !.hasEdges = TRUE]

RECURSIVE ReactionLoop(_, _, _)
ReactionLoop(g, message, rs) ==
    IF rs = <<>> \/ g.thrown THEN g
    ELSE ReactionLoop(ReactionStep(g, message, Head(rs)), message, Tail(rs))

\* the body of for (const user of message.mentions)
MentionStep(g, message, user) ==
    IF ~Known(user) THEN g
    ELSE
      LET mentionedMember == MemberMap[user]
          g1 == AddNode(g, MemberNode(mentionedMember))
          g2 == AddEdge(g1, MentionsEdge(message, mentionedMember))
      IN  [g2 EXCEPT !.hasEdges = TRUE]

RECURSIVE MentionLoop(_, _, _)
MentionLoop(g, message, users) ==
    IF users = <<>> \/ g.thrown THEN g
    ELSE MentionLoop(MentionStep(g, message, Head(users)), message, Tail(users))

RECURSIVE ReplyLoop(_, _, _, _)
\* for (const replyId of allReplies)
ReplyLoop(g, message, channelName, replyIds) ==
    IF replyIds = <<>> \/ g.thrown THEN g
    ELSE
      LET replyMessage == MessageById(Head(replyIds))
          g1 == AddNode(g, MessageNode(replyMessage, channelName))
          g2 == AddEdge(g1, RepliesEdge(message, replyMessage))
      IN  ReplyLoop(g2, message, channelName, Tail(replyIds))

\* if (message.isThread && message.inReplyTo === message.id) { ... }
ThreadStep(g, message, channelName) ==
    IF message.isThread /\ message.inReplyTo = message.id
      THEN ReplyLoop(AddNode(g, MessageNode(message, channelName)),
                     message, channelName, Thread(message.id))
      ELSE g

\* if (hasEdges) { ... }
AuthorStep(g, message, channelName) ==
    IF g.hasEdges /\ Known(message.authorId)
      THEN LET author == MemberMap[message.authorId]
               g1 == AddNode(g, MemberNode(author))
               g2 == AddNode(g1, MessageNode(message, channelName))
           IN  AddEdge(g2, AuthorsMessageEdge(message, author))
      ELSE g

\* one iteration of for (const message of messages)
MessageStep(g, message) ==
    IF SkipMessage(message) THEN g
    ELSE
      LET channelName == ChannelOf(message).name
          g0 == [g EXCEPT !.hasEdges = FALSE]
          g1 == ReactionLoop(g0, message, ReactionsOf(message.channel, message.id))
          g2 == MentionLoop(g1, message, message.mentions)
          g3 == ThreadStep(g2, message, channelName)
      IN  AuthorStep(g3, message, channelName)

\* A mirror snapshot, a weight configuration, and createGraph about to start.
GraphInit ==
    /\ nonString \in {"TypeError", "coerced"}
    /\ weights \in WeightConfigs
    /\ \E a1 \in AuthorIds, a2 \in AuthorIds, c2 \in {"C1", "C2"},
          shape \in {"none", "starter", "thread"},
          R \in ReactionChoices, M \in MentionChoices :
         /\ shape = "thread" => c2 = "C1"
         /\ messages =
              << MessageRow("1", "C1", a1, shape # "none",
                            IF shape = "none" THEN Null ELSE "1", R, M),
                 MessageRow("2", c2, a2, shape = "thread",
                            IF shape = "thread" THEN "1" ELSE Null, R, M) >>
         /\ reactions =
              LET js == SeqOfSet(R, 1, <<>>)
              IN  [i \in 1..Len(js) |->
                     [channel |-> IF ReactionOption(js[i]).messageId = "1"
                                    THEN "C1" ELSE c2,
                      messageId |-> ReactionOption(js[i]).messageId,
                      reaction |-> ReactionOption(js[i]).reaction,
                      reactor |-> ReactionOption(js[i]).reactor]]
    /\ wg = EmptyGraph
    /\ pos = 0
    /\ result = "running"

\* the pass visits the next message
ProcessMessage ==
    /\ result = "running"
    /\ pos < Len(PassOrder)
    /\ LET g == MessageStep(wg, PassOrder[pos + 1])
       IN  /\ wg' = g
           /\ result' = IF g.thrown THEN "thrown" ELSE "running"
    /\ pos' = pos + 1
    /\ UNCHANGED <<nonString, weights, messages, reactions, repoVars>>

\* return wg
Return ==
    /\ result = "running"
    /\ pos = Len(PassOrder)
    /\ result' = "returned"
    /\ UNCHANGED <<nonString, weights, messages, reactions, wg, pos, repoVars>>

GraphNext == ProcessMessage \/ Return

\* the repository part at rest while createGraph is explored, and conversely
RepoAtRest == RepoInit

GraphAtRest ==
    /\ nonString = "coerced"
    /\ weights \in {w \in WeightConfigs : w.emojiWeights.weights = <<>>}
    /\ messages = <<>>
    /\ reactions = <<>>
    /\ wg = EmptyGraph
    /\ pos = 0
    /\ result = "returned"

InitRepo == RepoInit /\ GraphAtRest

InitGraph == GraphInit /\ RepoAtRest

SpecRepo == InitRepo /\ [][RepoNext]_vars

SpecGraph == InitGraph /\ [][GraphNext]_vars

-----------------------------------------------------------------------------
(* Claims about SqliteMirrorRepository                                     *)

\* a constructor call on a real handle has exited
Exited == pc = "idle" /\ outcome \in {"returned", "thrown"} /\ error # "db: null"

\* C1 (version guard): a construction on a store whose meta row holds the
\* expected config returns without error and leaves tables and meta unchanged;
\* a construction on a store whose meta row holds another config throws and
\* leaves tables and meta unchanged.
C1_VersionGuard ==
    Exited =>
        LET stored == SelectConfig(pre)
            expected == StringValue(ConfigOf(version))
        IN  /\ stored = expected =>
                /\ outcome = "returned"
                /\ error = ""
                /\ Content(db) = Content(pre)
            /\ stored \notin {expected, Undefined} =>
                /\ outcome = "thrown"
                /\ Content(db) = Content(pre)

\* C1, amended (version guard): a construction on a store whose meta row holds
\* the expected config leaves tables, meta and the transaction state unchanged
\* and, when no transaction was open on the handle and the storage engine
\* failed no statement, returns without error; a construction on a store whose
\* meta row holds another config throws (the incompatibility error, under the
\* same two conditions) and leaves tables, meta and the transaction state
\* unchanged.
C1_VersionGuardAmended ==
    Exited =>
        LET stored == SelectConfig(pre)
            expected == StringValue(ConfigOf(version))
            clean == faulted = "" /\ ~pre.inTransaction
        IN  /\ stored = expected =>
                /\ Content(db) = Content(pre)
                /\ db.inTransaction = pre.inTransaction
                /\ clean => (outcome = "returned" /\ error = "")
            /\ stored \notin {expected, Undefined} =>
                /\ outcome = "thrown"
                /\ Content(db) = Content(pre)
                /\ db.inTransaction = pre.inTransaction
                /\ clean => error = IncompatibleError

\* the case the amendment of C1 sets apart: a construction of the stored
\* version, attempted while the owner of the handle had a transaction open on
\* the initialized store, was rejected by the guard of _transaction.
C1_RejectedInTransaction ==
    /\ Exited
    /\ SelectConfig(pre) = StringValue(ConfigOf(version))
    /\ pre.tables = AllTables
    /\ pre.inTransaction
    /\ outcome = "thrown"
    /\ error = "already in transaction"

\* C1 witness: a second construction with the same version returned on an
\* initialized store, having opened and committed its transaction.
C1_Witness ==
    /\ Exited
    /\ outcome = "returned"
    /\ SelectConfig(pre) = StringValue(ConfigOf(version))
    /\ pre.tables = AllTables
    /\ opened

\* the other side of C1: a construction with another version was refused
C1_WitnessMismatch ==
    /\ Exited
    /\ outcome = "thrown"
    /\ error = IncompatibleError
    /\ SelectConfig(pre) \notin {StringValue(ConfigOf(version)), Undefined}

\* C2 (initialization atomicity): a construction that throws on a pristine
\* store leaves no table at all, and outside a running constructor the store
\* never holds the version row with fewer than the five content tables.
C2_InitAtomicity ==
    /\ (Exited /\ outcome = "thrown" /\ Content(pre) = Pristine) =>
            Content(db) = Pristine
    /\ (pc = "idle" /\ db.meta # <<>>) => db.tables = AllTables

\* C2 witness: on a pristine store the body threw after the version row and
\* two content tables were written.
C2_Witness ==
    /\ Exited
    /\ outcome = "thrown"
    /\ Content(pre) = Pristine
    /\ ~pre.inTransaction
    /\ Len(log) >= 7
    /\ log[4] = "INSERT INTO meta"
    /\ log[6] = "CREATE TABLE members"

\* the meta rows of the committed store
CommittedMeta == IF db.inTransaction THEN db.journal.meta ELSE db.meta

\* the config a build of version v is documented to store
\* (the repository's test expects `{"version":"slack_mirror_v0"}`)
DocumentedConfig(v) ==
    IF v = "slack_mirror_v0" THEN "{\"version\":\"slack_mirror_v0\"}"
    ELSE "{\"version\":\"slack_mirror_v1\"}"

\* C3 (meta is write-once): a construction that returns on a pristine store
\* leaves exactly one meta row, zero = 0 and config = the serialized version
\* object; and once the committed store holds a meta row, no step of any later
\* construction changes the meta rows.
C3_MetaWriteOnce ==
    /\ [](  /\ (Exited /\ outcome = "returned" /\ Content(pre) = Pristine) =>
                    db.meta = <<[zero |-> 0, config |-> DocumentedConfig(version)]>>
            /\ CommittedMeta # <<>> =>
                    \E v \in Versions :
                        CommittedMeta = <<[zero |-> 0, config |-> DocumentedConfig(v)]>>)
    /\ [][CommittedMeta # <<>> =>
            (db'.meta = db.meta /\ CommittedMeta' = CommittedMeta)]_vars

\* C3 witness: a build of another version was refused on a store that a first
\* construction had stamped, and the stamp is still the first one.
C3_Witness ==
    /\ Exited
    /\ outcome = "thrown"
    /\ error = IncompatibleError
    /\ version = "slack_mirror_v1"
    /\ db.meta = <<[zero |-> 0, config |-> DocumentedConfig("slack_mirror_v0")]>>

\* C4 (transaction guard): a call made while a transaction is open throws
\* "already in transaction" without issuing any statement; BEGIN is issued at
\* most once per call and never inside an open transaction; whenever no
\* constructor is running no transaction opened by the guard is open; a call
\* that returns ended with COMMIT, and a call whose body threw has its changes
\* rolled back and the error propagated.
C4_TransactionGuard ==
    /\ (Exited /\ pre.inTransaction) =>
            /\ outcome = "thrown"
            /\ error = "already in transaction"
            /\ log = <<>>
            /\ db = pre
    /\ \A i \in 1..Len(log) : log[i] = "BEGIN" => (i = 1 /\ ~pre.inTransaction)
    /\ pc = "idle" => db.owner # "guard"
    /\ (Exited /\ outcome = "returned") =>
            (opened /\ log[Len(log)] = "COMMIT" /\ ~db.inTransaction)
    /\ (Exited /\ outcome = "thrown" /\ opened) =>
            (error # "" /\ ~db.inTransaction /\ Content(db) = Content(pre))

\* C4 witness: a construction attempted inside the caller's transaction was
\* rejected by the guard.
C4_Witness ==
    /\ Exited
    /\ pre.inTransaction
    /\ outcome = "thrown"
    /\ error = "already in transaction"

\* the other exits of the guard: the body threw and the guard rolled back
C4_WitnessRollback ==
    /\ Exited
    /\ outcome = "thrown"
    /\ opened
    /\ log[Len(log)] = "ROLLBACK"

-----------------------------------------------------------------------------
(* Claims about createGraph                                                *)

Returned == result = "returned"

Msgs == {messages[i] : i \in 1..Len(messages)}

\* the rows of message_reactions of a message
ReactionRows(m) == {r \in {reactions[i] : i \in 1..Len(reactions)} :
                        r.channel = m.channel /\ r.messageId = m.id}

MentionsIn(m) == {m.mentions[i] : i \in 1..Len(m.mentions)}

IsStarter(m) == m.isThread /\ m.inReplyTo = m.id

RepliesOf(m) == {r \in Msgs : r.inReplyTo = m.id /\ r.id # m.id}

\* a reaction / mention / authorship the member map resolves
Resolved(id) == id \in {"A", "B"}

\* the addresses as the specification documents them
DocMemberAddress(id) ==
    <<"sourcecred", "slack", "MEMBER",
      IF id = "A" THEN "alice@example.org" ELSE "bob@example.org">>
DocMessageAddress(m) == <<"sourcecred", "slack", "MESSAGE", m.channel, m.id>>
DocReactionAddress(m, r) ==
    <<"sourcecred", "slack", "REACTION", m.channel, r.reaction, m.authorId, m.id>>

HasNodeAt(a) == \E n \in wg.nodes : n.address = a

HasEdge(prefix, src, dst) ==
    \E e \in wg.edges :
        /\ Len(e.address) > Len(prefix)
        /\ SubSeq(e.address, 1, Len(prefix)) = prefix
        /\ e.src = src
        /\ e.dst = dst

EdgesWith(prefix) ==
    {e \in wg.edges : /\ Len(e.address) > Len(prefix)
                      /\ SubSeq(e.address, 1, Len(prefix)) = prefix}

NodesWith(prefix) ==
    {n \in wg.nodes : /\ Len(n.address) > Len(prefix)
                      /\ SubSeq(n.address, 1, Len(prefix)) = prefix}

\* m has no reaction, no mention, and is not a thread starter with replies
Isolated(m) ==
    /\ ReactionRows(m) = {}
    /\ MentionsIn(m) = {}
    /\ ~(IsStarter(m) /\ RepliesOf(m) # {})

\* m replies to a thread starter that has a reaction or a mention in the mirror
ReplyToVisitedStarter(m) ==
    \E s \in Msgs :
        /\ IsStarter(s)
        /\ m \in RepliesOf(s)
        /\ (ReactionRows(s) # {} \/ MentionsIn(s) # {})

\* C5 as stated (no isolated messages): in the returned graph no message with
\* zero reactions, zero mentions, that is not a thread starter with replies,
\* has a Message node.
C5_NoIsolatedMessages ==
    Returned => \A m \in Msgs : Isolated(m) => ~HasNodeAt(DocMessageAddress(m))

\* C5 as amended: in the returned graph no message with zero reactions, zero
\* mentions, that is not a thread starter with replies and is not a reply to a
\* thread starter that has a reaction or a mention, has a Message node.
C5_NoIsolatedMessagesAmended ==
    Returned =>
        \A m \in Msgs :
            (Isolated(m) /\ ~ReplyToVisitedStarter(m)) =>
                ~HasNodeAt(DocMessageAddress(m))

\* C5 witness: a graph was returned with nodes in it, and a message without
\* reactions and mentions, which is a thread starter without replies, got no
\* Message node.
C5_Witness ==
    /\ Returned
    /\ wg.nodes # {}
    /\ \E m \in Msgs :
        /\ Isolated(m)
        /\ IsStarter(m)
        /\ ~ReplyToVisitedStarter(m)
        /\ ~HasNodeAt(DocMessageAddress(m))

\* C6 as stated (thread materialization): for a thread starter with replies
\* and no reactions and no mentions the returned graph holds a Message node
\* for the starter and for each reply, a RepliesTo edge from the starter to
\* each reply, and no AuthorsMessage edge to the starter.
C6_ThreadMaterialization ==
    Returned =>
        \A m \in Msgs :
            (IsStarter(m) /\ RepliesOf(m) # {} /\ ReactionRows(m) = {}
                /\ MentionsIn(m) = {}) =>
                /\ HasNodeAt(DocMessageAddress(m))
                /\ \A r \in RepliesOf(m) :
                    /\ HasNodeAt(DocMessageAddress(r))
                    /\ HasEdge(MessageRepliesPrefix, DocMessageAddress(m),
                               DocMessageAddress(r))
                /\ \A e \in EdgesWith(AuthorsMessagePrefix) :
                    e.dst # DocMessageAddress(m)

\* What the code does for threads: a starter that has a reaction or a mention
\* in the mirror is materialized with its replies whether or not any of them
\* resolves (independent of hasEdges); a starter with neither is skipped.
C6_ThreadOfVisitedStarter ==
    Returned =>
        \A m \in Msgs :
            (IsStarter(m) /\ RepliesOf(m) # {}) =>
                IF ReactionRows(m) # {} \/ MentionsIn(m) # {}
                  THEN /\ HasNodeAt(DocMessageAddress(m))
                       /\ \A r \in RepliesOf(m) :
                            /\ HasNodeAt(DocMessageAddress(r))
                            /\ HasEdge(MessageRepliesPrefix, DocMessageAddress(m),
                                       DocMessageAddress(r))
                  ELSE \A e \in EdgesWith(MessageRepliesPrefix) :
                            e.src # DocMessageAddress(m)

\* the snapshot holds a reference the member map does not resolve
HasUnresolved ==
    \E m \in Msgs :
        \/ ~Resolved(m.authorId)
        \/ \E u \in MentionsIn(m) : ~Resolved(u)
        \/ \E r \in ReactionRows(m) : ~Resolved(r.reactor)

\* nothing in the graph stands for an unresolved reference
UnresolvedOmitted ==
    /\ \A e \in EdgesWith(AddsReactionPrefix) :
            e.address[Len(AddsReactionPrefix) + 1] # "X"
    /\ \A e \in EdgesWith(MentionsPrefix) : e.address[Len(e.address)] # "X"
    /\ \A e \in EdgesWith(AuthorsMessagePrefix) :
            e.address[Len(AuthorsMessagePrefix) + 1] # "X"
    /\ \A n \in NodesWith(MemberPrefix) :
            n.address \in {DocMemberAddress("A"), DocMemberAddress("B")}
    /\ \A m \in Msgs :
        ~Resolved(m.authorId) =>
            \A e \in EdgesWith(AuthorsMessagePrefix) : e.dst # DocMessageAddress(m)

\* the Reaction node of every resolved reaction is in the graph
ReactionNodesPresent ==
    \A m \in Msgs :
        \A r \in ReactionRows(m) :
            Resolved(r.reactor) => HasNodeAt(DocReactionAddress(m, r))

\* everything else derived from a resolved reference is in the graph: the
\* reaction's edges and reactor, the mention's edge and member, and the
\* authorship records of a message with a known author
OtherResolvedPresent ==
    \A m \in Msgs :
        /\ \A r \in ReactionRows(m) :
            Resolved(r.reactor) =>
                /\ HasNodeAt(DocMemberAddress(r.reactor))
                /\ HasEdge(ReactsToPrefix, DocReactionAddress(m, r),
                           DocMessageAddress(m))
                /\ HasEdge(AddsReactionPrefix, DocMemberAddress(r.reactor),
                           DocReactionAddress(m, r))
        /\ \A u \in MentionsIn(m) :
            Resolved(u) =>
                /\ HasNodeAt(DocMemberAddress(u))
                /\ HasEdge(MentionsPrefix, DocMessageAddress(m), DocMemberAddress(u))
        /\ ( /\ Resolved(m.authorId)
             /\ \E id \in {r.reactor : r \in ReactionRows(m)} \cup MentionsIn(m) :
                    Resolved(id) ) =>
                /\ HasNodeAt(DocMemberAddress(m.authorId))
                /\ HasNodeAt(DocMessageAddress(m))
                /\ HasEdge(AuthorsMessagePrefix, DocMemberAddress(m.authorId),
                           DocMessageAddress(m))

\* C7 as stated (referential tolerance): on a snapshot with an unresolved
\* reactor, mentioned user or author, createGraph does not throw, the graph it
\* returns holds nothing for the unresolved reference, and holds every node
\* and edge derived from the resolved references.
C7_ReferentialTolerance ==
    HasUnresolved =>
        /\ result # "thrown"
        /\ Returned =>
            (UnresolvedOmitted /\ ReactionNodesPresent /\ OtherResolvedPresent)

\* The part of C7 that does not rest on the Reaction node: a pass that
\* returns left nothing for an unresolved reference and holds every other
\* record derived from the resolved ones.
C7_SkipsAreSilent ==
    (HasUnresolved /\ Returned) => (UnresolvedOmitted /\ OtherResolvedPresent)

\* the reactions createGraph materializes: those with a known reactor
Materialized == {r \in {reactions[i] : i \in 1..Len(reactions)} : Resolved(r.reactor)}

MessageOf(r) == CHOOSE m \in Msgs : m.channel = r.channel /\ m.id = r.messageId

\* the address of the Reaction node createGraph adds for r
AddedReactionAddress(r) == ReactionNode(MessageOf(r), JsObject(r)).address

\* C8 as stated (reaction weight): in the returned weights, the Reaction node
\* added for each materialized reaction carries the resolver's value for that
\* reaction.
C8_ReactionWeight ==
    Returned =>
        \A r \in Materialized :
            /\ AddedReactionAddress(r) \in DOMAIN wg.nodeWeights
            /\ wg.nodeWeights[AddedReactionAddress(r)] =
                 ReactionWeight(weights, r.reaction, r.reactor,
                                MessageOf(r).authorId, r.channel)

\* C9 as stated (address uniqueness): two distinct materialized reactions have
\* distinct Reaction node addresses, distinct ReactsTo edge addresses and
\* distinct AddsReaction edge addresses.
C9_AddressUniqueness ==
    Returned =>
        \A r1 \in Materialized, r2 \in Materialized :
            r1 # r2 =>
                /\ AddedReactionAddress(r1) # AddedReactionAddress(r2)
                /\ ReactsToEdge(JsString(r1.reaction), MessageOf(r1)).address
                     # ReactsToEdge(JsString(r2.reaction), MessageOf(r2)).address
                /\ AddsReactionEdge(JsString(r1.reaction), MemberMap[r1.reactor],
                                    MessageOf(r1)).address
                     # AddsReactionEdge(JsString(r2.reaction), MemberMap[r2.reactor],
                                        MessageOf(r2)).address

\* C10 as stated (reaction endpoint consistency): in the returned graph the
\* source of every ReactsTo edge and the destination of every AddsReaction
\* edge is the address of a Reaction node of the graph.
C10_ReactionEndpoints ==
    Returned =>
        /\ \A e \in EdgesWith(ReactsToPrefix) :
                \E n \in NodesWith(ReactionPrefix) : n.address = e.src
        /\ \A e \in EdgesWith(AddsReactionPrefix) :
                \E n \in NodesWith(ReactionPrefix) : n.address = e.dst

====
